---------------------------- MODULE Spec2Model ----------------------------
(***************************************************************************)
(* Model of python_proofs/variablequantization.py: block-wise 8-bit        *)
(* quantization (VerifiedQuantizer) with per-block digests (HashVerifier). *)
(*                                                                         *)
(* Number representation.  A float sample is held as an integer count q of *)
(* 1/Grid steps (x = q / Grid), so every sample is exactly representable   *)
(* in binary and all arithmetic below is exact rational arithmetic:        *)
(*   - x / scale            = 127*q / abs_max        (a fraction <<n, d>>) *)
(*   - x - dequantized      = (127*q - (code-128)*abs_max) * u             *)
(*   - mean_squared_error   = (num / den) * u^2,  u = 1 / (127 * Grid)     *)
(* NaN is a value of its own (the result of 0/0 and of the mean of an      *)
(* empty array).  Strings are sequences of one-character strings.          *)
(***************************************************************************)
EXTENDS Integers, Sequences, FiniteSets, TLC

VARIABLES data, clock, quantizer, op, outcome, results, created_at, audit

vars == <<data, clock, quantizer, op, outcome, results, created_at, audit>>

(* ------------------------------ bounds -------------------------------- *)

\* Samples are multiples of 1/Grid.
Grid == 4
\* Longest input sequence over Values.
MaxLen == 2
\* Longest input sequence of distinct samples (0.25, 0.5, 0.75, ...).
MaxRamp == 10
\* Last value of the wall clock.
MaxClock == 1

\* Sample values, in 1/Grid steps: -0.5, -0.25, 0.0, 0.25.
Values == {-2, -1, 0, 1}
\* block_size arguments tried at construction (the code accepts any int).
BlockSizes == {-1, 0, 1, 3, 4}
\* verification_precision arguments tried at construction.
Precisions == {0, 1, 2}
\* block_id arguments of a direct quantize_block call.
BlockIds == {0, 1}
\* What the cast of NaN to uint8 may give: undefined in C, so any uint8;
\* the model draws from the ends of the range and the midpoint.
NanCastOutcomes == {0, 128, 255}
\* The outcomes to draw from for a call on input: a NaN arises only from a
\* sample that is 0.0, so without one the draw is immaterial.
cast_outcomes(input) ==
    IF \E i \in DOMAIN input : input[i] = 0 THEN NanCastOutcomes ELSE {0}

None == [kind |-> "None"]
NaN == [kind |-> "nan"]
Float(n, d) == [kind |-> "float", num |-> n, den |-> d]

BoundedSeq(S, n) == UNION {[1..k -> S] : k \in 0..n}
Ramp(n) == [i \in 1..n |-> i]

(* --------------------------- numeric helpers --------------------------- *)

Abs(x) == IF x < 0 THEN -x ELSE x

Max(S) == CHOOSE m \in S : \A y \in S : y <= m

RECURSIVE Sum(_)
Sum(s) == IF s = <<>> THEN 0 ELSE Head(s) + Sum(Tail(s))

RECURSIVE Pow10(_)
Pow10(p) == IF p = 0 THEN 1 ELSE 10 * Pow10(p - 1)

\* n/d (d > 0) cut to the integer below: a cast without np.round.
RoundDown(n, d) == n \div d

\* n/d (d > 0) rounded to the nearest integer, ties to the even one.
RoundHalfEven(n, d) ==
    LET f == n \div d
        r == n % d
    IN  IF 2 * r < d THEN f
        ELSE IF 2 * r > d THEN f + 1
        ELSE IF f % 2 = 0 THEN f ELSE f + 1

\* np.max(np.abs(data)), in 1/Grid steps.
np_max_abs(block) == Max({Abs(block[i]) : i \in DOMAIN block})

\* np.clip(n/d, lo, hi) on a fraction <<n, d>>.
np_clip(x, lo, hi) ==
    IF x[1] < lo * x[2] THEN <<lo * x[2], x[2]>>
    ELSE IF x[1] > hi * x[2] THEN <<hi * x[2], x[2]>>
    ELSE x

\* .astype(np.int8): the signed cast, wrapping into -128..127.
astype_int8(v) == ((v + 128) % 256) - 128

\* .astype(np.uint8) of an integral value: wraps modulo 2^8.
astype_uint8(v) == v % 256

(* ------------------------------ strings -------------------------------- *)
(* A string is held as the sequence of its UTF-8 bytes (all ASCII here),   *)
(* which is what sha256 is given: input_str.encode().                      *)

\* The characters of a list's str(): "[", "]", ",", " ", "-", ".".
LBracket == <<91>>
RBracket == <<93>>
CommaSpace == <<44, 32>>
Minus == <<45>>
Dot == <<46>>
DigitChar(d) == 48 + d

\* str() of a non-negative int.
RECURSIVE int_str(_)
int_str(n) ==
    IF n < 10 THEN <<DigitChar(n)>>
    ELSE Append(int_str(n \div 10), DigitChar(n % 10))

\* The p decimal digits of frac / 10^p, leading zeros kept.
RECURSIVE frac_digits(_, _)
frac_digits(frac, p) ==
    IF p = 0 THEN <<>>
    ELSE Append(frac_digits(frac \div 10, p - 1), DigitChar(frac % 10))

RECURSIVE strip_zeros(_)
strip_zeros(s) ==
    IF s # <<>> /\ s[Len(s)] = DigitChar(0)
    THEN strip_zeros(SubSeq(s, 1, Len(s) - 1))
    ELSE s

\* repr() of a Python float holding (-1)^neg * mag / 10^ndigits: shortest
\* decimal form, always with a fractional part ("1.0", "-0.0", "0.25").
float_repr(f) ==
    LET ip == f.mag \div Pow10(f.ndigits)
        fr == strip_zeros(frac_digits(f.mag % Pow10(f.ndigits), f.ndigits))
    IN  (IF f.neg THEN Minus ELSE <<>>)
        \o int_str(ip) \o Dot \o (IF fr = <<>> THEN <<DigitChar(0)>> ELSE fr)

\* The items' reprs from the k-th on, separated by ", ".
RECURSIVE join(_, _)
join(items, k) ==
    IF k > Len(items) THEN <<>>
    ELSE IF k = Len(items) THEN items[k]
    ELSE items[k] \o CommaSpace \o join(items, k + 1)

\* str() of a Python list whose items' reprs are given.
list_str(items) == LBracket \o join(items, 1) \o RBracket

\* round(float(x), ndigits) of the sample q/Grid: nearest multiple of
\* 10^-ndigits of the exact binary value, ties to even; the sign is kept,
\* so a negative sample rounded to zero is -0.0.
py_round(q, ndigits) ==
    [neg |-> q < 0,
     mag |-> RoundHalfEven(Abs(q) * Pow10(ndigits), Grid),
     ndigits |-> ndigits]

(* ----------------------------- HashVerifier ---------------------------- *)

\* BlockHash's default timestamp: time.time() evaluated once, when the class
\* body runs at import, which is when the clock starts.
default_timestamp == 0

BlockHash(block_id, original_hash, quantized_hash) ==
    [block_id |-> block_id,
     original_hash |-> original_hash,
     quantized_hash |-> quantized_hash,
     timestamp |-> default_timestamp]

HashVerifier(verification_precision) ==
    [verification_precision |-> verification_precision]

\* hashlib.sha256(input_str.encode()).hexdigest()[:8]: a fixed-width digest
\* that depends on the bytes of the string and nothing else.  SHA-256 is
\* abstracted by a polynomial digest modulo a prime,
\*   (5381 * 33^n + b[1] * 33^(n-1) + ... + b[n]) mod 46337,
\* computed by halving so that the evaluation stays shallow.
RECURSIVE sha256_power(_)
sha256_power(n) ==
    IF n = 0 THEN 1
    ELSE IF n % 2 = 1 THEN (33 * sha256_power(n - 1)) % 46337
    ELSE (sha256_power(n \div 2) * sha256_power(n \div 2)) % 46337

RECURSIVE sha256_poly(_, _, _)
sha256_poly(bytes, lo, hi) ==
    IF lo > hi THEN 0
    ELSE IF lo = hi THEN bytes[lo] % 46337
    ELSE (sha256_poly(bytes, lo, (lo + hi) \div 2) * sha256_power(hi - (lo + hi) \div 2)
          + sha256_poly(bytes, (lo + hi) \div 2 + 1, hi)) % 46337

sha256(input_str) ==
    (5381 * sha256_power(Len(input_str)) + sha256_poly(input_str, 1, Len(input_str)))
        % 46337

\* A digest that also covers the block id.
compute_original_block_hash_with_id(self, block_id, block) ==
    sha256(int_str(block_id) \o
           list_str([i \in DOMAIN block |->
                       float_repr(py_round(block[i], self.verification_precision))]))

compute_original_block_hash(self, block_id, block) ==
    LET rounded_data == [i \in DOMAIN block |->
                           py_round(block[i], self.verification_precision)]
        data_str == list_str([i \in DOMAIN block |-> float_repr(rounded_data[i])])
    IN  sha256(data_str)

compute_quantized_block_hash(self, block_id, codes) ==
    LET data_list == codes
    IN  sha256(list_str([i \in DOMAIN data_list |-> int_str(data_list[i])]))

verify_block(self, block_id, original, quantized) ==
    LET original_hash == compute_original_block_hash(self, block_id, original)
        quantized_hash == compute_quantized_block_hash(self, block_id, quantized)
    IN  BlockHash(block_id, original_hash, quantized_hash)

(* --------------------------- VerifiedQuantizer -------------------------- *)

VerifiedQuantizer(block_size, verification_precision) ==
    [block_size |-> block_size,
     verifier |-> HashVerifier(verification_precision)]

\* The result type the source uses without defining it: a plain record of
\* the keyword arguments quantize_block passes.
BlockResult(block_id, quantized_data, original_data, hash_info, processing_time_ms, compression_ratio, mean_squared_error) ==
    [block_id |-> block_id,
     quantized_data |-> quantized_data,
     original_data |-> original_data,
     hash_info |-> hash_info,
     processing_time_ms |-> processing_time_ms,
     compression_ratio |-> compression_ratio,
     mean_squared_error |-> mean_squared_error]

\* abs_max of a block, in 1/Grid steps; 1.0 for the empty block.
block_abs_max(block) == IF Len(block) > 0 THEN np_max_abs(block) ELSE Grid

\* scale = abs_max / 127.0, so x / scale = 127*q / abs_max.  With
\* abs_max = 0 every element is 0.0/0.0 = NaN (numpy warns, does not raise);
\* clip, + 128 and round keep NaN, and the cast of NaN to uint8 is undefined:
\* nan_cast is what it gives.
quantize_8bit(block, nan_cast) ==
    LET abs_max == block_abs_max(block)
    IN  [i \in DOMAIN block |->
           IF abs_max = 0 THEN nan_cast
           ELSE LET scaled == np_clip(<<127 * block[i], abs_max>>, -127, 127)
                IN  astype_uint8(RoundHalfEven(scaled[1] + 128 * scaled[2], scaled[2]))]

\* The squared error of one element, in u^2: with scale = abs_max / 127,
\* q/Grid - (code - 128) * scale = (127*q - (code - 128)*abs_max) * u.
squared_error(q, code, abs_max) ==
    (127 * q - (code - 128) * abs_max) * (127 * q - (code - 128) * abs_max)

\* np.mean of the squared errors; of an empty array it is NaN (a warning,
\* not an error).  Returns <<compression_ratio, mse>>.
compute_metrics(original, quantized, abs_max) ==
    LET compression_ratio == 4
        mse == IF Len(original) = 0 THEN NaN
               ELSE Float(Sum([i \in DOMAIN original |->
                                 squared_error(original[i], quantized[i], abs_max)]),
                          Len(original))
    IN  <<compression_ratio, mse>>

\* now is the clock at the call: the call is one step, so both reads of
\* time.time() give it and processing_time_ms is 0.
quantize_block(self, block_id, block, now, nan_cast) ==
    LET start_time == now
        abs_max == block_abs_max(block)
        quantized == quantize_8bit(block, nan_cast)
        hash_info == verify_block(self.verifier, block_id, block, quantized)
        metrics == compute_metrics(block, quantized, abs_max)
    IN  BlockResult(block_id, quantized, block, hash_info,
                    (now - start_time) * 1000, metrics[1], metrics[2])

\* int(np.ceil(a / b)) for b # 0.
np_ceil_div(a, b) == IF b > 0 THEN (a + b - 1) \div b ELSE -(a \div (-b))

\* A split whose sections start one element early (ary[st-1:end]).
array_split_off_by_one(ary, Nsections) ==
    LET Ntotal == Len(ary)
        Neach_section == Ntotal \div Nsections
        extras == Ntotal % Nsections
        div_points == [i \in 0..Nsections |->
                         IF i <= extras THEN i * (Neach_section + 1)
                         ELSE extras * (Neach_section + 1) + (i - extras) * Neach_section]
    IN  [i \in 1..Nsections |->
           SubSeq(ary, IF i = 1 THEN 1 ELSE div_points[i - 1], div_points[i])]

\* A split into full chunks of ceil(Ntotal / Nsections) and a shorter rest.
array_split_chunked(ary, Nsections) ==
    LET Ntotal == Len(ary)
        chunk == (Ntotal + Nsections - 1) \div Nsections
    IN  [i \in 1..Nsections |->
           SubSeq(ary, (i - 1) * chunk + 1,
                  IF i * chunk < Ntotal THEN i * chunk ELSE Ntotal)]

\* np.array_split(ary, Nsections) for Nsections > 0: the first
\* Ntotal % Nsections sections hold one element more than the others.
array_split(ary, Nsections) ==
    LET Ntotal == Len(ary)
        Neach_section == Ntotal \div Nsections
        extras == Ntotal % Nsections
        div_points == [i \in 0..Nsections |->
                         IF i <= extras THEN i * (Neach_section + 1)
                         ELSE extras * (Neach_section + 1) + (i - extras) * Neach_section]
    IN  [i \in 1..Nsections |-> SubSeq(ary, div_points[i - 1] + 1, div_points[i])]

\* Returns what the call raised ("" when it returned) and its value.
quantize_all_blocks(self, input, now, nan_cast) ==
    IF self.block_size = 0
    THEN [raised |-> "ZeroDivisionError", value |-> <<>>]
    ELSE LET Nsections == np_ceil_div(Len(input), self.block_size)
         IN  IF Nsections <= 0
             THEN [raised |-> "ValueError", value |-> <<>>]
             ELSE LET blocks == array_split(input, Nsections)
                  IN  [raised |-> "",
                       value |-> [i \in 1..Nsections |->
                                    quantize_block(self, i - 1, blocks[i], now, nan_cast)]]

(* ------------------------------- actions ------------------------------- *)

TypeOK ==
    /\ clock \in 0..MaxClock
    /\ op \in {"none", "quantize_all_blocks", "quantize_block"}
    /\ outcome \in {"none", "returned", "ValueError", "ZeroDivisionError"}
    /\ Len(created_at) = Len(results)

InitState ==
    /\ clock = default_timestamp
    /\ quantizer = None
    /\ op = "none"
    /\ outcome = "none"
    /\ results = <<>>
    /\ created_at = <<>>
    /\ audit = None

\* The caller holds a short sequence over Values, or a longer sequence of
\* distinct samples.
Inputs == BoundedSeq(Values, MaxLen) \cup {Ramp(n) : n \in 0..MaxRamp}

Init == data \in Inputs /\ InitState

\* VerifiedQuantizer(block_size, verification_precision): no validation.
Construct(block_size, verification_precision) ==
    /\ quantizer = None
    /\ quantizer' = VerifiedQuantizer(block_size, verification_precision)
    /\ UNCHANGED <<data, clock, op, outcome, results, created_at, audit>>

\* Time passes.
Tick ==
    /\ clock < MaxClock
    /\ clock' = clock + 1
    /\ UNCHANGED <<data, quantizer, op, outcome, results, created_at, audit>>

\* results = quantizer.quantize_all_blocks(data)
QuantizeAllBlocks(nan_cast) ==
    /\ quantizer # None
    /\ audit = None
    /\ LET r == quantize_all_blocks(quantizer, data, clock, nan_cast)
       IN  /\ op' = "quantize_all_blocks"
           /\ outcome' = IF r.raised = "" THEN "returned" ELSE r.raised
           /\ results' = r.value
           /\ created_at' = [i \in DOMAIN r.value |-> clock]
    /\ audit' = None
    /\ UNCHANGED <<data, clock, quantizer>>

\* result = quantizer.quantize_block(block_id, data): the whole input as
\* one block.
QuantizeBlock(block_id, nan_cast) ==
    /\ quantizer # None
    /\ audit = None
    /\ op' = "quantize_block"
    /\ outcome' = "returned"
    /\ results' = <<quantize_block(quantizer, block_id, data, clock, nan_cast)>>
    /\ created_at' = <<clock>>
    /\ audit' = None
    /\ UNCHANGED <<data, clock, quantizer>>

\* A later audit of result i, as test_quantization does it: a verifier of
\* its own, the block's id, the stored original and quantized data.
VerifyBlock(i) ==
    /\ outcome = "returned"
    /\ i \in DOMAIN results
    /\ LET verifier == HashVerifier(quantizer.verifier.verification_precision)
           block == results[i]
       IN  audit' = [of |-> i,
                     hash_info |-> verify_block(verifier, block.block_id,
                                                block.original_data, block.quantized_data),
                     created_at |-> clock]
    /\ UNCHANGED <<data, clock, quantizer, op, outcome, results, created_at>>

Next ==
    \/ \E b \in BlockSizes, p \in Precisions : Construct(b, p)
    \/ Tick
    \/ \E c \in cast_outcomes(data) : QuantizeAllBlocks(c)
    \/ \E b \in BlockIds, c \in cast_outcomes(data) : QuantizeBlock(b, c)
    \/ \E i \in 1..MaxRamp + 1 : VerifyBlock(i)

Spec == Init /\ [][Next]_vars

(* ------------------------------- claims -------------------------------- *)

AllBlocksCalled == op = "quantize_all_blocks"
AllBlocksReturned == AllBlocksCalled /\ outcome = "returned"

\* The original_data of the results from the k-th on, concatenated.
RECURSIVE concat_original(_, _)
concat_original(rs, k) ==
    IF k > Len(rs) THEN <<>>
    ELSE rs[k].original_data \o concat_original(rs, k + 1)

BlockLengths == [i \in DOMAIN results |-> Len(results[i].original_data)]

\* C1: whenever quantize_all_blocks of a quantizer with positive block_size
\* returns, the original_data of its results, concatenated in list order,
\* is the input sequence: nothing dropped, duplicated or reordered.
C1_BlockCoverage ==
    (AllBlocksReturned /\ quantizer.block_size > 0)
        => concat_original(results, 1) = data

\* C1 witness: a ten-sample input split into more than two blocks.
C1_Witness ==
    /\ AllBlocksReturned
    /\ quantizer.block_size = 3
    /\ Len(data) = 10
    /\ Len(results) = 4

\* C2: for a non-empty input of length L and positive block_size B,
\* quantize_all_blocks returns N = ceil(L / B) results ((N-1)*B < L <= N*B)
\* with block ids 0..N-1 in list order, and block lengths that never grow
\* along the list and differ by at most one.
C2_BalancedSplit ==
    (AllBlocksCalled /\ Len(data) > 0 /\ quantizer.block_size > 0)
        => /\ outcome = "returned"
           /\ (Len(results) - 1) * quantizer.block_size < Len(data)
           /\ Len(data) <= Len(results) * quantizer.block_size
           /\ \A i \in DOMAIN results : results[i].block_id = i - 1
           /\ \A i, j \in DOMAIN results :
                i < j => BlockLengths[i] - BlockLengths[j] \in {0, 1}

\* C2 witness: block_size 4 and ten samples give lengths 4, 3, 3, ids 0, 1, 2.
C2_Witness ==
    /\ AllBlocksReturned
    /\ quantizer.block_size = 4
    /\ Len(data) = 10
    /\ BlockLengths = <<4, 3, 3>>
    /\ [i \in DOMAIN results |-> results[i].block_id] = <<0, 1, 2>>

\* C3: every result of quantize_block holds as many codes as the block has
\* samples, and every code lies in 0..255.
C3_CodesInRange ==
    \A i \in DOMAIN results :
        /\ Len(results[i].quantized_data) = Len(results[i].original_data)
        /\ \A k \in DOMAIN results[i].quantized_data :
             results[i].quantized_data[k] \in 0..255

\* C3 witness: a block quantized to both ends of the code range.
C3_Witness ==
    \E i \in DOMAIN results :
        /\ \E k \in DOMAIN results[i].quantized_data :
             results[i].quantized_data[k] = 255
        /\ \E k \in DOMAIN results[i].quantized_data :
             results[i].quantized_data[k] = 1

\* C4: for every stored result, a verifier constructed independently with
\* the same precision computes, from the result's original_data and
\* quantized_data and under a block id that is or is not the result's own,
\* the digests stored in the result; and a later audit of a result yields
\* the stored digests again.
C4_DigestsPure ==
    /\ \A i \in DOMAIN results :
         LET verifier == HashVerifier(quantizer.verifier.verification_precision)
         IN  \A b \in {results[i].block_id, results[i].block_id + 1} :
               /\ compute_original_block_hash(verifier, b, results[i].original_data)
                    = results[i].hash_info.original_hash
               /\ compute_quantized_block_hash(verifier, b, results[i].quantized_data)
                    = results[i].hash_info.quantized_hash
    /\ audit # None
         => /\ audit.hash_info.original_hash = results[audit.of].hash_info.original_hash
            /\ audit.hash_info.quantized_hash = results[audit.of].hash_info.quantized_hash

\* C4 witness: a non-empty block with a non-zero id, audited after the clock
\* has advanced past the call that produced it.
C4_Witness ==
    /\ audit # None
    /\ audit.created_at > created_at[audit.of]
    /\ results[audit.of].block_id > 0
    /\ Len(results[audit.of].original_data) > 0

\* C5: quantize_block of a quantizer with positive block_size gives every
\* sample of a non-empty block whose samples are all zero the code 128.
C5_ZeroBlockCodes ==
    \A i \in DOMAIN results :
        (/\ quantizer.block_size > 0
         /\ Len(results[i].original_data) > 0
         /\ \A k \in DOMAIN results[i].original_data : results[i].original_data[k] = 0)
            => \A k \in DOMAIN results[i].quantized_data :
                 results[i].quantized_data[k] = 128

\* C6: the result of quantize_block on an empty block, for a quantizer
\* with positive block_size, has empty quantized_data and
\* mean_squared_error 0.0.
C6_EmptyBlock ==
    \A i \in DOMAIN results :
        (quantizer.block_size > 0 /\ Len(results[i].original_data) = 0)
            => /\ results[i].quantized_data = <<>>
               /\ results[i].mean_squared_error.kind = "float"
               /\ results[i].mean_squared_error.num = 0

\* C7: quantize_all_blocks of a quantizer with positive block_size never
\* raises; on the empty input it returns the empty sequence.
C7_NeverRaises ==
    (AllBlocksCalled /\ quantizer.block_size > 0)
        => /\ outcome = "returned"
           /\ Len(data) = 0 => results = <<>>

\* C8: no quantizer with block_size <= 0 exists.
C8_PositiveBlockSize ==
    quantizer # None => quantizer.block_size > 0

\* C9: the timestamp of every verification record (of a quantizer with
\* positive block_size, or of a later audit) is the clock value at the
\* verify_block call that created it.
C9_FreshTimestamps ==
    /\ \A i \in DOMAIN results :
         quantizer.block_size > 0 => results[i].hash_info.timestamp = created_at[i]
    /\ (audit # None /\ quantizer.block_size > 0)
         => audit.hash_info.timestamp = audit.created_at

\* C10: for every non-empty block with abs_max = A, mean_squared_error is a
\* number and at most (A/127)^2 / 4.  In units of u^2 the bound is
\* abs_max^2 / 4, so num / den <= abs_max^2 / 4.
C10_MseBound ==
    \A i \in DOMAIN results :
        Len(results[i].original_data) > 0
            => /\ results[i].mean_squared_error.kind = "float"
               /\ 4 * results[i].mean_squared_error.num
                    <= results[i].mean_squared_error.den
                         * block_abs_max(results[i].original_data)
                         * block_abs_max(results[i].original_data)

\* C10 witness: a block of several samples, one of them half a step away
\* from its code (0.25 with abs_max 0.5 scales to 63.5), so that the error
\* is not zero.
C10_Witness ==
    \E i \in DOMAIN results :
        /\ results[i].original_data = <<1, -2>>
        /\ results[i].quantized_data = <<192, 1>>
        /\ results[i].mean_squared_error = Float(1, 2)

=============================================================================
